---- MODULE Spec2Model ----
(***************************************************************************)
(* Simulation core of lighthouse-keeper: the ship fleet (ships.js), the    *)
(* rock field's collision check (rocks.js), the cycle manager              *)
(* (cycleManager.js) and the orchestrator's frame loop (main.js).          *)
(*                                                                         *)
(* Arithmetic is integer and the configuration is scaled down.  Time is    *)
(* counted in ticks of half the frame clamp (DtClamp = 2 ticks), and a     *)
(* cycle lasts CycleTicks of them.  Positions are integers; a heading is   *)
(* one of eight compass directions, held as its index into Compass, whose  *)
(* vectors have length UnitLen (7/10 approximates sqrt(2)/2).  Speeds are  *)
(* multiples of UnitLen so that heading * speed * dt is an integer.  The   *)
(* cosmetic bobbing of mesh.position.y (amplitude 0.15) is below the       *)
(* grid's resolution: the ship's y stays shipY.  The beam's aim is counted  *)
(* in steps of beamRotationSpeed; its projection on the sea is not derived *)
(* from the aim: each PLAY frame draws the spot centre from SpotChoices.   *)
(***************************************************************************)
EXTENDS Integers, Sequences, FiniteSets, TLC

VARIABLES
    ships,          \* ships.js: the fleet's ship array
    shipsSpawned,   \* ships.js: spawn counter
    spawnTimer,     \* ships.js: spawn timer
    shipEvents,     \* for each ship of the array, the collision events that
                    \* named it since it was pushed, counted up to MaxEvents
    rocks,          \* rocks.js: the rock array (static after placement)
    call,           \* the last call made: its name, for update the spot centre
                    \* it was given, and for checkShipCollisions
                    \* its options, the list it returned, and whether the call
                    \* before it was checkShipCollisions too
    elapsed,        \* dt accumulated by fleet updates since creation/reset
    sinceSpawn,     \* the latest spawn: whether there was one, the dt of the
                    \* update calls after it, and whether reset() was called
                    \* after it
    runDt,          \* the constant dt of a run of update(dt, time, null) calls
    options,        \* the counts the systems were created with: shipCount of
                    \* createShipSystem and count of createRockSystem
    tries,          \* rocks.js: candidates sampled so far by the placement loop
    lastCycleIndex, \* cycleManager.js: last cycle index seen
    fired,          \* the cycle indices handed to onCycleStart, in call order
    seen,           \* cycle indices computed by CycleManager.update so far
    lastT,          \* argument of the last CycleManager.update call
    mode,           \* main.js: INTRO or PLAY
    clockTime,      \* main.js: clock.elapsedTime
    playStartTime,  \* main.js: time of the INTRO -> PLAY transition, or Null
    introStart,     \* introCamera.js: startTime, or Null
    rafPending,     \* main.js: a requestAnimationFrame(animate) call is outstanding
    faultLogged,    \* main.js: console.error has been called by the catch block
    startPlays,     \* main.js: number of calls of startPlay so far
    systems,        \* main.js: which of shipSystem, rockSystem and cycle are
                    \* not null
    beam,           \* lighthouseBeam.js: enabled, keysPressed (the keys held
                    \* true), beamRotation.yaw and .pitch in steps of
                    \* beamRotationSpeed, and the number of key events so far
    ops             \* main.js: the systems' operations run by the latest
                    \* animate() call, in call order

vars == << ships, shipsSpawned, spawnTimer, shipEvents, rocks, call, elapsed, sinceSpawn, runDt, options,
           lastCycleIndex, fired, seen, lastT, mode, clockTime, playStartTime,
           introStart, rafPending, faultLogged, tries, startPlays, ops, systems,
           beam >>

fleetVars == << ships, shipsSpawned, spawnTimer, shipEvents >>
cycleVars == << lastCycleIndex, fired, seen, lastT >>
loopVars  == << mode, clockTime, playStartTime, introStart, rafPending, faultLogged,
               startPlays, ops, systems, beam >>

----------------------------------------------------------------------------
(* Bounds of the model *)

MaxDt == 2          \* fleet updates are called with dt in 1..MaxDt
MaxElapsed == 6     \* a fleet is updated while its accumulated dt is below this
MaxRun == 12        \* the same, for a fleet driven with a constant dt
MaxClock == 14      \* the frame loop is followed while clock.elapsedTime is below this
MaxGap == 3         \* real time between two frames is in 1..MaxGap, or LongGap
MaxT == 25          \* CycleManager.update is called with times up to this
MaxKeyEvents == 3   \* key events are followed up to this many
MaxEvents == 2      \* collision events of one ship are counted up to this many
MaxKeyClock == 5    \* with key events, the frame loop is followed up to this time
CycleTicks == 5     \* CONFIG.cycleDuration, in ticks
LaneStep == 2       \* distance units per tick of a ship, in multiples of UnitLen
SpawnEvery == 2     \* spawn interval, in ticks

----------------------------------------------------------------------------
(* Configuration *)

\* null is the empty tuple; a number that may be null is held as << n >>
Null == << >>
Some(n) == << n >>
Val(o) == o[1]

UnitLen == 10
Compass == << <<0, -10>>, <<-7, -7>>, <<-10, 0>>, <<-7, 7>>,
              <<0, 10>>,  <<7, 7>>,   <<10, 0>>,  <<7, -7>> >>
FullTurn == Len(Compass)
HalfTurn == FullTurn \div 2

cycleDuration == CycleTicks
cycleShipCount == 3
cycleSpawnStart == 0
cycleSpawnEnd == cycleSpawnStart + SpawnEvery * (cycleShipCount - 1)
shipArriveZ == 0
shipSpawnZ == shipArriveZ + LaneStep * UnitLen * cycleDuration
shipY == 3

Max(a, b) == IF a >= b THEN a ELSE b
Min(a, b) == IF a <= b THEN a ELSE b
Sign(a) == IF a > 0 THEN 1 ELSE IF a < 0 THEN -1 ELSE 0

\* startPlay: the options handed to createShipSystem
shipDistance == shipSpawnZ - shipArriveZ
shipSpeed == shipDistance \div cycleDuration
spawnWindow == Max(0, cycleSpawnEnd - cycleSpawnStart)
spawnInterval ==
    IF cycleShipCount <= 1 THEN cycleDuration
    ELSE spawnWindow \div (cycleShipCount - 1)

\* main.js 87 and 101: the counts startPlay hands to the two systems
PlayOptions == [ shipCount |-> cycleShipCount, count |-> 2 ]

shipCount == options.shipCount
shipSpeedMin == shipSpeed
shipSpeedMax == shipSpeed
shipSpawnInterval == spawnInterval
shipSpawnXMin == -43
shipSpawnXMax == 43
shipTurnRate == 1
spotRange == 40

\* values THREE.MathUtils.randFloat can return for the spawn X and the speed
SpawnXs == { x \in {shipSpawnXMin, 0} : shipSpawnXMin <= x /\ x <= shipSpawnXMax }
Speeds == {v \in shipSpeedMin..shipSpeedMax : v % UnitLen = 0}

\* bounding sphere of the ship mesh: radius, and height of its centre over
\* mesh.position
ShipRadius == 10
ShipBoxCentreY == 2

\* rock field options
oceanY == 0
minSpacing == 10
rockCount == options.count

----------------------------------------------------------------------------
(* ships.js: the ship fleet *)

\* The headings, as indices into Compass: index k is (0, 0, -1) turned by k
\* eighths of a turn about the UP axis.
Headings == 0..(FullTurn - 1)
DirX(k) == Compass[k + 1][1]
DirZ(k) == Compass[k + 1][2]

\* tmpDesired.normalize(): the compass direction nearest to (dx, dz) # (0, 0)
Normalize(dx, dz) ==
    CHOOSE k \in Headings :
        \A j \in Headings :
            LET dk == DirX(k) * dx + DirZ(k) * dz
                dj == DirX(j) * dx + DirZ(j) * dz
            IN  dk > dj \/ (dk = dj /\ k <= j)

\* Math.acos(dot) of two headings, in eighths of a turn
AngleBetween(a, b) ==
    LET d == (b - a) % FullTurn
    IN  IF d > HalfTurn THEN FullTurn - d ELSE d

\* circle-circle intersection in XZ plane
shipIntersectsSpotTwiceAsFar(shipPos, shipR, spotCenter, spotR) ==
    LET dx == shipPos[1] - spotCenter[1]
        dz == shipPos[2] - spotCenter[2]
        r == shipR + 2 * spotR
    IN  dx * dx + dz * dz <= r * r

shipIntersectsSpot(shipPos, shipR, spotCenter, spotR) ==
    LET dx == shipPos[1] - spotCenter[1]
        dz == shipPos[2] - spotCenter[2]
        dist2 == dx * dx + dz * dz
        r == shipR + spotR
    IN  dist2 <= r * r

\* ships.js 78: the heading of a new ship, (0, 0, -1), as << x, y, z >> in
\* units of 1 / UnitLen
SpawnDirectionTilted == << 0, 1, 0 - UnitLen >>

SpawnDirection == << 0, 0, 0 - UnitLen >>

\* ships.js 86-94: the ship object pushed by spawnShip.  born records the
\* time argument of the update that spawned it (Null for a direct call).
NewShip(randomX, speed, born) ==
    [ x |-> randomX, z |-> shipSpawnZ,
      dir |-> Normalize(SpawnDirection[1], SpawnDirection[3]),
      dirY |-> SpawnDirection[2], speed |-> speed,
      active |-> TRUE, crashed |-> FALSE, visible |-> TRUE, born |-> born ]

\* ships.js 67: the quota test of spawnShip
SpawnGuardOffByOne(n) == n > shipCount

SpawnGuard(n) == n >= shipCount

\* ships.js 66-98: the fleet state after spawnShip()
AfterSpawn(f, randomX, speed, born) ==
    IF SpawnGuard(f.shipsSpawned) THEN f
    ELSE [ f EXCEPT !.ships = Append(@, NewShip(randomX, speed, born)),
                    !.shipsSpawned = @ + 1, !.events = Append(@, 0) ]

\* ships.js 136: the size of the turn, clamped to what the turn rate allows
TurnStepUnclamped(maxStep, ang) == ang

TurnStep(maxStep, ang) == Min(maxStep, ang)

\* ships.js 113-143: the heading of ship s after the steering block
Steer(s, dt, spotCenter) ==
    IF spotCenter # Null
       /\ shipIntersectsSpot(<<s.x, s.z>>, ShipRadius, spotCenter, spotRange)
    THEN
        LET dx == spotCenter[1] - s.x
            dz == spotCenter[2] - s.z
        IN  IF dx * dx + dz * dz > 0
            THEN
                LET desired == Normalize(dx, dz)
                    ang == AngleBetween(s.dir, desired)
                IN  IF ang > 0
                    THEN
                        LET crossY == DirX(s.dir) * DirZ(desired)
                                      - DirZ(s.dir) * DirX(desired)
                            maxStep == shipTurnRate * dt
                            step == (0 - Sign(crossY)) * TurnStep(maxStep, ang)
                        IN  (s.dir + step) % FullTurn
                    ELSE s.dir
            ELSE s.dir
    ELSE s.dir

\* ships.js 113-143: the Y component of the heading after the steering
\* block: a rotation about UP keeps it, and line 139 then sets it to 0
SteerY(s, dt, spotCenter) ==
    IF spotCenter # Null
       /\ shipIntersectsSpot(<<s.x, s.z>>, ShipRadius, spotCenter, spotRange)
       /\ (spotCenter[1] - s.x) * (spotCenter[1] - s.x)
            + (spotCenter[2] - s.z) * (spotCenter[2] - s.z) > 0
       /\ AngleBetween(s.dir, Normalize(spotCenter[1] - s.x, spotCenter[2] - s.z)) > 0
    THEN 0
    ELSE s.dirY

\* ships.js 156: the arrival test
ArrivedStrict(z) == z < shipArriveZ

Arrived(z) == z <= shipArriveZ

\* ships.js 110-160: one iteration of update's loop over the ships
StepShip(s, dt, spotCenter) ==
    IF ~s.active THEN s
    ELSE
        LET dir == Steer(s, dt, spotCenter)
            x == s.x + (DirX(dir) * s.speed * dt) \div UnitLen
            z == s.z + (DirZ(dir) * s.speed * dt) \div UnitLen
            moved == [ s EXCEPT !.dir = dir, !.dirY = SteerY(s, dt, spotCenter),
                                !.x = x, !.z = z ]
        IN  IF Arrived(z)
            THEN [ moved EXCEPT !.active = FALSE, !.visible = FALSE ]
            ELSE moved

\* ships.js 105: the timer test of update's spawn schedule
SpawnDueEarly(timer) == timer + 1 >= shipSpawnInterval

SpawnDue(timer) == timer >= shipSpawnInterval

\* ships.js 102-161: the fleet state after update(dt, time, spotCenter)
AfterUpdate(f, dt, time, spotCenter, randomX, speed) ==
    LET timer == f.spawnTimer + dt
        g == IF f.shipsSpawned < shipCount /\ SpawnDue(timer)
             THEN AfterSpawn([ f EXCEPT !.spawnTimer = 0 ], randomX, speed, Some(time))
             ELSE [ f EXCEPT !.spawnTimer = timer ]
    IN  [ g EXCEPT !.ships =
            [ i \in 1..Len(g.ships) |-> StepShip(g.ships[i], dt, spotCenter) ] ]

\* ships.js 62-64 and 163-168: the state of a new fleet, and after reset()
\* events holds, for each ship of the array, the collision events so far
NewFleet ==
    [ ships |-> << >>, shipsSpawned |-> 0, spawnTimer |-> shipSpawnInterval,
      events |-> << >> ]

AfterResetKeepsTimer(f) ==
    [ f EXCEPT !.ships = << >>, !.shipsSpawned = 0, !.events = << >> ]

AfterReset(f) ==
    [ f EXCEPT !.ships = << >>, !.shipsSpawned = 0, !.spawnTimer = shipSpawnInterval,
               !.events = << >> ]

Fleet ==
    [ ships |-> ships, shipsSpawned |-> shipsSpawned, spawnTimer |-> spawnTimer,
      events |-> shipEvents ]

SetFleet(f) ==
    /\ shipEvents' = f.events
    /\ ships' = f.ships
    /\ shipsSpawned' = f.shipsSpawned
    /\ spawnTimer' = f.spawnTimer

----------------------------------------------------------------------------
(* rocks.js: the rock field *)

\* rocks.js 53-65: the collider of a rock added at (x, z) with sampled radius
addRockAt(x, z, radius) ==
    [ cx |-> x, cy |-> oceanY + radius \div 4, cz |-> z,
      radius |-> (9 * radius) \div 10 ]

\* rocks.js 67-76: the spacing test of a candidate against the rocks placed
isFarEnoughIgnoringRadius(placed, x, z) ==
    \A i \in 1..Len(placed) :
        LET dx == x - placed[i].cx
            dz == z - placed[i].cz
        IN  ~(dx * dx + dz * dz < minSpacing * minSpacing)

isFarEnough(placed, x, z) ==
    \A i \in 1..Len(placed) :
        LET dx == x - placed[i].cx
            dz == z - placed[i].cz
            d2 == dx * dx + dz * dz
            minD == minSpacing + placed[i].radius
        IN  ~(d2 < minD * minD)

\* candidates the placement loop can sample: (x, z, radius)
RockCandidates == { <<-15, 40, 20>>, <<15, 40, 20>> }

\* rocks.js 78-88: the rock arrays with which the placement loop ends when its
\* tries are not used up
RECURSIVE Placements(_)
Placements(placed) ==
    LET accepted == { c \in RockCandidates : isFarEnough(placed, c[1], c[2]) }
        full == Len(placed) >= rockCount
    IN  (IF full THEN {placed} ELSE {})
        \cup (IF full THEN {}
              ELSE UNION { Placements(Append(placed, addRockAt(c[1], c[2], c[3]))) :
                             c \in accepted })

RockFields == Placements(<< >>)

\* rocks.js 80: the placement loop samples at most 50 candidates per rock
TriesPerRock == 50
maxTries == rockCount * TriesPerRock

\* rocks.js 80: the condition of the placement loop
PlacingGoesOnOverBudget(n, t) == n < rockCount /\ t <= maxTries

PlacingGoesOn(n, t) == n < rockCount /\ t < maxTries

\* candidates (x, z, radius) sampled in a region too small for the spacing:
\* a rock at (0, 40) leaves no room for another
CrowdedCandidates == RockCandidates \cup { <<0, 40, 20>>, <<5, 40, 10>> }

\* rocks.js 22-28: the sphere around the ship group
getShipApproxSphere(ship) ==
    [ cx |-> ship.x, cy |-> shipY + ShipBoxCentreY, cz |-> ship.z,
      radius |-> ShipRadius ]

\* rocks.js 113-118: the sphere-sphere test
SpheresHitStrict(sphere, collider) ==
    LET dx == sphere.cx - collider.cx
        dy == sphere.cy - collider.cy
        dz == sphere.cz - collider.cz
        rSum == sphere.radius + collider.radius
    IN  dx * dx + dy * dy + dz * dz < rSum * rSum

SpheresHit(sphere, collider) ==
    LET dx == sphere.cx - collider.cx
        dy == sphere.cy - collider.cy
        dz == sphere.cz - collider.cz
        rSum == sphere.radius + collider.radius
    IN  dx * dx + dy * dy + dz * dz <= rSum * rSum

\* rocks.js 111-127: the index of the rock at which the inner loop breaks,
\* scanning from ri; 0 when the loop runs to its end
RECURSIVE FirstHit(_, _, _)
FirstHit(sphere, rs, ri) ==
    IF ri > Len(rs) THEN 0
    ELSE IF SpheresHit(sphere, rs[ri]) THEN ri
    ELSE FirstHit(sphere, rs, ri + 1)

\* rocks.js 103-107: the ships the outer loop skips
SkippedInactiveOnly(ship) == ship.active = FALSE

Skipped(ship) == ship.crashed \/ ship.active = FALSE \/ ship.visible = FALSE

\* rocks.js 121-122: the marks put on a ship that hit a rock
MarkHitKeepsVisible(ship, markCrashed, hideOnCrash) ==
    [ ship EXCEPT !.crashed = IF markCrashed THEN TRUE ELSE @ ]

MarkHit(ship, markCrashed, hideOnCrash) ==
    [ ship EXCEPT !.crashed = IF markCrashed THEN TRUE ELSE @,
                  !.visible = IF hideOnCrash THEN FALSE ELSE @ ]

\* rocks.js 94-131: the outer loop from ship si on; acc holds the ships and
\* the hits so far.  si and ri count from 1; the events hold the indices
\* of the code, from 0.
RECURSIVE CheckFrom(_, _, _, _, _)
CheckFrom(acc, rs, si, markCrashed, hideOnCrash) ==
    IF si > Len(acc.ships) THEN acc
    ELSE
        LET ship == acc.ships[si]
            ri == IF Skipped(ship) THEN 0
                  ELSE FirstHit(getShipApproxSphere(ship), rs, 1)
            next == IF ri = 0 THEN acc
                    ELSE [ ships |-> [ acc.ships EXCEPT
                                         ![si] = MarkHit(ship, markCrashed, hideOnCrash) ],
                           hits |-> Append(acc.hits,
                                           [ shipIndex |-> si - 1, rockIndex |-> ri - 1 ]) ]
        IN  CheckFrom(next, rs, si + 1, markCrashed, hideOnCrash)

checkShipCollisions(shipArray, rs, markCrashed, hideOnCrash) ==
    CheckFrom([ ships |-> shipArray, hits |-> << >> ], rs, 1, markCrashed, hideOnCrash)

\* rocks.js 119: the events counted per ship once the list hits is returned
CountHits(counts, hits) ==
    [ i \in 1..Len(counts) |->
        Min(counts[i] + Cardinality({ k \in 1..Len(hits) : hits[k].shipIndex = i - 1 }),
            MaxEvents) ]

----------------------------------------------------------------------------
(* lighthouseBeam.js: the beam's gate, keys and aim *)

\* config.js 35-37 and lighthouseBeam.js 137: the aim in steps of
\* beamRotationSpeed from the initial aim, and the pitch clamp
beamRotationSpeed == 1
beamInitialYaw == 0
beamInitialPitch == 0
maxPitch == 2

ArrowKeys == { "ArrowLeft", "ArrowRight", "ArrowUp", "ArrowDown" }

clamp(v, lo, hi) == Max(lo, Min(hi, v))

\* lighthouseBeam.js 34-38 and 96: the beam as createLighthouseBeam leaves it
NewBeam ==
    [ enabled |-> FALSE, keys |-> {}, yaw |-> beamInitialYaw,
      pitch |-> beamInitialPitch, events |-> 0 ]

\* lighthouseBeam.js 99-102
onKeyDownUngated(b, key) ==
    IF key \in ArrowKeys THEN [ b EXCEPT !.keys = @ \cup {key} ] ELSE b

onKeyDown(b, key) ==
    IF ~b.enabled THEN b
    ELSE IF key \in ArrowKeys THEN [ b EXCEPT !.keys = @ \cup {key} ] ELSE b

\* lighthouseBeam.js 103-105
onKeyUp(b, key) ==
    IF key \in ArrowKeys THEN [ b EXCEPT !.keys = @ \ {key} ] ELSE b

\* lighthouseBeam.js 109-113
setEnabled(b, v) == [ b EXCEPT !.enabled = v ]

\* lighthouseBeam.js 121-131
resetAim(b) == [ b EXCEPT !.yaw = beamInitialYaw, !.pitch = beamInitialPitch ]

\* lighthouseBeam.js 133-150: beam.update()
BeamUpdate(b) ==
    IF ~b.enabled THEN b
    ELSE LET yaw1 == IF "ArrowLeft" \in b.keys THEN b.yaw + beamRotationSpeed ELSE b.yaw
             yaw2 == IF "ArrowRight" \in b.keys THEN yaw1 - beamRotationSpeed ELSE yaw1
             p1 == IF "ArrowUp" \in b.keys
                   THEN clamp(b.pitch - beamRotationSpeed, 0 - maxPitch, maxPitch)
                   ELSE b.pitch
             p2 == IF "ArrowDown" \in b.keys
                   THEN clamp(p1 + beamRotationSpeed, 0 - maxPitch, maxPitch)
                   ELSE p1
         IN  [ b EXCEPT !.yaw = yaw2, !.pitch = p2 ]

----------------------------------------------------------------------------
(* The fleet and the rock field, called in any order *)

\* spot centres handed to update: null, or a point between the rocks
SpotChoices == { Null, <<0, 40>> }

\* option pairs << markCrashed, hideOnCrash >> handed to checkShipCollisions
CheckOptions == BOOLEAN \X BOOLEAN

\* rocks.js 96-97: the defaults of markCrashed and hideOnCrash
DefaultOptions == << TRUE, TRUE >>

Called(name) == [ name |-> name ]

\* ships.js 104-108: sinceSpawn after a call that takes the fleet from f to
\* g, update(dt, ...) or spawnShip() (dt = 0)
SpawnLog(f, g, dt) ==
    IF Len(g.ships) > Len(f.ships)
    THEN [ any |-> TRUE, dt |-> 0, reset |-> FALSE ]
    ELSE [ sinceSpawn EXCEPT !.dt = IF sinceSpawn.any THEN @ + dt ELSE @ ]

InitWith(opts) ==
    /\ options = opts
    /\ ships = NewFleet.ships
    /\ shipsSpawned = NewFleet.shipsSpawned
    /\ spawnTimer = NewFleet.spawnTimer
    /\ shipEvents = NewFleet.events
    /\ call = Called("create")
    /\ elapsed = 0
    /\ sinceSpawn = [ any |-> FALSE, dt |-> 0, reset |-> FALSE ]
    /\ lastCycleIndex = -1
    /\ fired = << >>
    /\ seen = {}
    /\ lastT = 0
    /\ mode = "INTRO"
    /\ clockTime = 0
    /\ playStartTime = Null
    /\ introStart = Null
    /\ rafPending = TRUE
    /\ faultLogged = FALSE
    /\ systems = {}
    /\ beam = NewBeam
    /\ tries = 0
    /\ startPlays = 0
    /\ ops = << >>

InitShared == InitWith(PlayOptions)

InitFleet ==
    /\ InitShared
    /\ rocks \in RockFields
    /\ runDt = 0

SpawnShipCall ==
    /\ \E randomX \in SpawnXs, speed \in Speeds :
           LET g == AfterSpawn(Fleet, randomX, speed, Null)
           IN  /\ SetFleet(g)
               /\ sinceSpawn' = SpawnLog(Fleet, g, 0)
    /\ call' = Called("spawnShip")
    /\ UNCHANGED << rocks, elapsed, runDt, options, tries, cycleVars, loopVars >>

UpdateCall ==
    /\ elapsed < MaxElapsed
    /\ \E dt \in 1..MaxDt, spotCenter \in SpotChoices :
           /\ \E randomX \in SpawnXs, speed \in Speeds :
                  LET g == AfterUpdate(Fleet, dt, elapsed + dt, spotCenter, randomX, speed)
                  IN  /\ SetFleet(g)
                      /\ sinceSpawn' = SpawnLog(Fleet, g, dt)
           /\ elapsed' = elapsed + dt
           /\ call' = [ name |-> "update", spotCenter |-> spotCenter ]
    /\ UNCHANGED << rocks, runDt, options, tries, cycleVars, loopVars >>

ResetCall ==
    /\ SetFleet(AfterReset(Fleet))
    /\ elapsed' = 0
    /\ sinceSpawn' = [ sinceSpawn EXCEPT !.reset = TRUE ]
    /\ call' = Called("reset")
    /\ UNCHANGED << rocks, runDt, options, tries, cycleVars, loopVars >>

CheckCallWith(choices) ==
    /\ \E o \in choices :
           LET r == checkShipCollisions(ships, rocks, o[1], o[2])
           IN  /\ ships' = r.ships
               /\ shipEvents' = CountHits(shipEvents, r.hits)
               /\ call' = [ name |-> "checkShipCollisions", markCrashed |-> o[1],
                            hideOnCrash |-> o[2], hits |-> r.hits,
                            again |-> (call.name = "checkShipCollisions") ]
    /\ UNCHANGED << shipsSpawned, spawnTimer, rocks, elapsed, sinceSpawn, runDt, options, tries, cycleVars, loopVars >>

CheckCall == CheckCallWith(CheckOptions)

\* rocks.js 96-97: checkShipCollisions(ships) with its options left out
DefaultCheckCall == CheckCallWith({ DefaultOptions })

\* rocks.js 78-88: the placement loop of createRockSystem, one step per
\* iteration
InitPlace ==
    /\ InitShared
    /\ rocks = << >>
    /\ runDt = 0

PlaceTry ==
    /\ PlacingGoesOn(Len(rocks), tries)
    /\ tries' = tries + 1
    /\ \E c \in CrowdedCandidates :
           rocks' = IF isFarEnough(rocks, c[1], c[2])
                    THEN Append(rocks, addRockAt(c[1], c[2], c[3]))
                    ELSE rocks
    /\ call' = Called("createRockSystem")
    /\ UNCHANGED << fleetVars, elapsed, sinceSpawn, runDt, options, cycleVars, loopVars >>

NextPlace == PlaceTry

SpecPlace == InitPlace /\ [][NextPlace]_vars

\* the fleet's own operations, called in any order
NextFleet == SpawnShipCall \/ UpdateCall \/ ResetCall

SpecFleet == InitFleet /\ [][NextFleet]_vars

\* a fleet that spawns by its schedule alone, and the rock field's check
NextSea == UpdateCall \/ CheckCall \/ ResetCall

SpecSea == InitFleet /\ [][NextSea]_vars

\* the fleet and the rock field used through their public calls, the
\* collision check always with its default options
NextDefault == SpawnShipCall \/ UpdateCall \/ ResetCall \/ DefaultCheckCall

SpecDefault == InitFleet /\ [][NextDefault]_vars

\* systems created with counts of zero or less: a fleet without a quota next
\* to an empty rock field, and a fleet of one ship over an empty field
IdleOptions ==
    { [ shipCount |-> n, count |-> m ] : n \in {-1, 0, 1}, m \in {-1, 0} }

InitIdle ==
    /\ \E opts \in IdleOptions : InitWith(opts)
    /\ rocks \in RockFields
    /\ runDt = 0

NextIdle == SpawnShipCall \/ UpdateCall \/ CheckCall \/ ResetCall

SpecIdle == InitIdle /\ [][NextIdle]_vars

\* a fleet driven by update and reset calls alone
NextSchedule == UpdateCall \/ ResetCall

SpecSchedule == InitFleet /\ [][NextSchedule]_vars

----------------------------------------------------------------------------
(* A fleet driven only by update(dt, time, null) with a constant dt *)

InitRun ==
    /\ InitShared
    /\ rocks \in RockFields
    /\ runDt \in 1..MaxDt

RunUpdate ==
    /\ elapsed < MaxRun
    /\ \E randomX \in SpawnXs, speed \in Speeds :
           LET g == AfterUpdate(Fleet, runDt, elapsed + runDt, Null, randomX, speed)
           IN  /\ SetFleet(g)
               /\ sinceSpawn' = SpawnLog(Fleet, g, runDt)
    /\ elapsed' = elapsed + runDt
    /\ call' = [ name |-> "update", spotCenter |-> Null ]
    /\ UNCHANGED << rocks, runDt, options, tries, cycleVars, loopVars >>

NextRun == RunUpdate \/ ResetCall

SpecRun == InitRun /\ [][NextRun]_vars

----------------------------------------------------------------------------
(* lighthouseBeam.js: projection of the beam's axis on a horizontal plane *)

\* Direction components are counted in units of 1 / DirUnit.  The band
\* |dy| < 1e-4 of line 21 is scaled to |dy| < EpsBand units, and
\* CONFIG.beamLength to two length units.
DirUnit == 4
EpsBand == 2
beamLength == 2

Abs(a) == IF a < 0 THEN 0 - a ELSE a

\* the quotient n / d, d # 0, as a pair with a positive denominator
Quot(n, d) == IF d < 0 THEN << 0 - n, 0 - d >> ELSE << n, d >>

\* lighthouseBeam.js 21: the beam is nearly parallel to the plane
NearlyParallelOrOnBand(dy) == Abs(dy) <= EpsBand

NearlyParallel(dy) == Abs(dy) < EpsBand

\* lighthouseBeam.js 13-31: null, or the point origin + dir * t as three
\* quotients; origin is in length units, dir in units of 1 / DirUnit
getSpotCenterOnPlane(origin, dir, planeY) ==
    LET dy == dir[2]
    IN  IF NearlyParallel(dy) THEN Null
        ELSE LET t == Quot((planeY - origin[2]) * DirUnit, dy)
             IN  IF t[1] <= 0 THEN Null
                 ELSE IF t[1] > beamLength * t[2] THEN Null
                 ELSE [ k \in 1..3 |->
                          Quot(origin[k] * DirUnit * t[2] + dir[k] * t[1],
                               DirUnit * t[2]) ]

\* world positions of the lamp, directions of the beam's axis, and plane
\* heights
BeamOrigins == { << 0, y, 1 >> : y \in 0..3 }
BeamDirs == { << x, y, 1 >> : x \in {-1, 0, 3}, y \in (0 - DirUnit)..DirUnit }
PlaneYs == 0..2

InitBeam ==
    /\ InitShared
    /\ rocks = << >>
    /\ runDt = 0

SpotCall ==
    /\ \E origin \in BeamOrigins, dir \in BeamDirs, planeY \in PlaneYs :
           call' = [ name |-> "getSpotCenterOnPlane", origin |-> origin, dir |-> dir,
                     planeY |-> planeY,
                     result |-> getSpotCenterOnPlane(origin, dir, planeY) ]
    /\ UNCHANGED << fleetVars, rocks, elapsed, sinceSpawn, runDt, options, tries, cycleVars, loopVars >>

NextBeam == SpotCall

SpecBeam == InitBeam /\ [][NextBeam]_vars

----------------------------------------------------------------------------
(* cycleManager.js: the cycle manager *)

\* cycleManager.js 10: Math.floor(time / CONFIG.cycleDuration)
CycleIndex(time) == time \div cycleDuration

\* cycleManager.js 4-7: progress(time), as the pair << numerator, denominator >>
progressWithoutWrap(time) == << time, cycleDuration >>

progress(time) == << time % cycleDuration, cycleDuration >>

\* cycleManager.js 11: whether update(time) calls onCycleStart
CycleFiresFromZero(time) == CycleIndex(time) # Max(lastCycleIndex, 0)

CycleFires(time) == CycleIndex(time) # lastCycleIndex

\* cycleManager.js 9-16: the manager's state after update(time); fired and
\* seen log the callback's calls and the indices computed
CycleUpdate(time) ==
    /\ lastCycleIndex' = IF CycleFires(time) THEN CycleIndex(time) ELSE lastCycleIndex
    /\ fired' = IF CycleFires(time) THEN Append(fired, CycleIndex(time)) ELSE fired
    /\ seen' = seen \cup {CycleIndex(time)}
    /\ lastT' = time

\* a cycle manager on its own, called with non-decreasing times
InitCycle ==
    /\ InitShared
    /\ rocks = << >>
    /\ runDt = 0

CycleUpdateCall ==
    /\ \E time \in lastT..MaxT :
           /\ CycleUpdate(time)
           /\ call' = [ name |-> "cycle.update", fired |-> CycleFires(time),
                        result |-> progress(time) ]
    /\ UNCHANGED << fleetVars, rocks, elapsed, sinceSpawn, runDt, options, tries, loopVars >>

NextCycle == CycleUpdateCall

SpecCycle == InitCycle /\ [][NextCycle]_vars

----------------------------------------------------------------------------
(* main.js: the orchestrator's frame loop *)

\* main.js 127: the clamp of dt, two ticks
DtClamp == 2

\* main.js 60: duration of the intro camera's flight
IntroDuration == 2

\* real time between two frames: short gaps, below and above the clamp, and
\* a pause of two cycles
LongGap == 2 * cycleDuration
Gaps == (1..MaxGap) \cup {LongGap}

\* main.js 111: the callback handed to createCycleManager
OnCycleStartKeepsFleet(f) == f

OnCycleStart(f) == AfterReset(f)

\* main.js 146-147: the mode after an INTRO frame
ModeStaysIntro(m, finished) == m

ModeAfterIntro(m, finished) == IF finished THEN "PLAY" ELSE m

\* main.js 86-111: the systems startPlay creates
StartPlaySystemsWithoutCycle == { "shipSystem", "rockSystem" }

StartPlaySystems == { "shipSystem", "rockSystem", "cycle" }

\* the first call of animate(): clock.getDelta() starts the clock and returns
\* 0, and intro.update(0) sets the intro's start time
FirstFrame ==
    /\ rafPending
    /\ mode = "INTRO"
    /\ introStart = Null
    /\ introStart' = Some(clockTime)
    /\ rafPending' = TRUE
    /\ call' = Called("animate")
    /\ ops' = << "intro.update" >>
    /\ UNCHANGED << startPlays, systems, beam >>
    /\ UNCHANGED << fleetVars, rocks, elapsed, sinceSpawn, runDt, options, tries, cycleVars,
                    mode, clockTime, playStartTime, faultLogged >>

\* main.js 131-155: a frame in INTRO mode; the frame in which the intro
\* camera reports completion runs startPlay
IntroFrameUntil(limit) ==
    /\ rafPending
    /\ mode = "INTRO"
    /\ introStart # Null
    /\ clockTime < limit
    /\ \E delta \in Gaps :
         LET time == clockTime + delta
             finished == time - Val(introStart) >= IntroDuration
         IN  /\ clockTime' = time
             /\ mode' = ModeAfterIntro(mode, finished)
             /\ IF finished
                THEN /\ playStartTime' = Some(time)
                     /\ SetFleet(NewFleet)
                     /\ rocks' \in RockFields
                     /\ lastCycleIndex' = -1
                     /\ startPlays' = startPlays + 1
                     /\ systems' = StartPlaySystems
                     /\ beam' = resetAim(setEnabled(beam, TRUE))
                     /\ ops' = << "intro.update", "startPlay" >>
                ELSE /\ ops' = << "intro.update" >>
                     /\ UNCHANGED << playStartTime, fleetVars, rocks,
                                     lastCycleIndex, startPlays, systems, beam >>
    /\ rafPending' = TRUE
    /\ call' = Called("animate")
    /\ UNCHANGED << elapsed, sinceSpawn, runDt, options, tries, fired, seen, lastT, introStart, faultLogged >>

\* main.js 159-166: the systems' operations of a PLAY frame, in call order
PlayOrderCheckFirst ==
    << "cycle.update", "beam.getSpotCenterOnPlane",
       "rockSystem.checkShipCollisions", "shipSystem.update" >>

PlayOrder ==
    << "cycle.update", "beam.getSpotCenterOnPlane",
       "shipSystem.update", "rockSystem.checkShipCollisions" >>

\* one operation of a PLAY frame.  st holds the fleet, the constant spot and
\* the hit list as the frame has them so far; in holds the frame's dt and
\* tPlay, whether the cycle callback fires, the beam's projection and the
\* random draws of a spawn.
RunOp(op, st, in) ==
    CASE op = "cycle.update" ->
           [ st EXCEPT !.fleet = IF in.fires THEN OnCycleStart(@) ELSE @ ]
      [] op = "beam.getSpotCenterOnPlane" ->
           [ st EXCEPT !.spot = in.projection ]
      [] op = "shipSystem.update" ->
           [ st EXCEPT !.fleet = AfterUpdate(@, in.dt, in.tPlay, st.spot,
                                             in.randomX, in.speed) ]
      [] op = "rockSystem.checkShipCollisions" ->
           LET r == checkShipCollisions(st.fleet.ships, rocks, TRUE, TRUE)
           IN  [ st EXCEPT !.fleet.ships = r.ships,
                           !.fleet.events = CountHits(@, r.hits), !.hits = r.hits ]

RECURSIVE RunOps(_, _, _)
RunOps(order, st, in) ==
    IF order = << >> THEN st
    ELSE RunOps(Tail(order), RunOp(Head(order), st, in), in)

IntroFrame == IntroFrameUntil(MaxClock)

\* main.js 156-174: a frame in PLAY mode
PlayFrameUntil(limit) ==
    /\ rafPending
    /\ mode = "PLAY"
    /\ clockTime < limit
    /\ \E delta \in Gaps, spot \in SpotChoices :
         LET dt == Min(delta, DtClamp)
             time == clockTime + delta
             tPlay == time - Val(playStartTime)
         IN  /\ clockTime' = time
             /\ CycleUpdate(tPlay)
             /\ \E randomX \in SpawnXs, speed \in Speeds :
                  LET in == [ dt |-> dt, tPlay |-> tPlay, fires |-> CycleFires(tPlay),
                              projection |-> spot, randomX |-> randomX,
                              speed |-> speed ]
                      st == RunOps(PlayOrder,
                                   [ fleet |-> Fleet, spot |-> Null, hits |-> << >> ],
                                   in)
                  IN  /\ SetFleet(st.fleet)
                      /\ call' = [ name |-> "checkShipCollisions", markCrashed |-> TRUE,
                                   hideOnCrash |-> TRUE, hits |-> st.hits,
                                   again |-> FALSE ]
    /\ rafPending' = TRUE
    /\ ops' = PlayOrder
    /\ beam' = BeamUpdate(beam)
    /\ UNCHANGED << rocks, elapsed, sinceSpawn, runDt, options, tries, mode, playStartTime,
                    introStart, faultLogged, startPlays, systems >>

PlayFrame == PlayFrameUntil(MaxClock)

\* main.js 156-177: a frame in PLAY mode in which the fleet update throws:
\* the catch block logs, and requestAnimationFrame is not reached
FaultyFrame ==
    /\ rafPending
    /\ mode = "PLAY"
    /\ clockTime < MaxClock
    /\ \E delta \in Gaps :
         LET time == clockTime + delta
             tPlay == time - Val(playStartTime)
         IN  /\ clockTime' = time
             /\ CycleUpdate(tPlay)
             /\ SetFleet(IF CycleFires(tPlay) THEN OnCycleStart(Fleet) ELSE Fleet)
    /\ faultLogged' = TRUE
    /\ rafPending' = FALSE
    /\ call' = Called("animate")
    /\ ops' = SubSeq(PlayOrder, 1, 3)
    /\ beam' = BeamUpdate(beam)
    /\ UNCHANGED << rocks, elapsed, sinceSpawn, runDt, options, tries, mode, playStartTime,
                    introStart, startPlays, systems >>

\* lighthouseBeam.js 99-108: a keydown or keyup event between two frames
KeyChoices == ArrowKeys \cup { "a" }

KeyDown ==
    /\ beam.events < MaxKeyEvents
    /\ \E key \in KeyChoices :
           /\ beam' = [ onKeyDown(beam, key) EXCEPT !.events = @ + 1 ]
           /\ call' = [ name |-> "keydown", key |-> key ]
    /\ UNCHANGED << fleetVars, rocks, elapsed, sinceSpawn, runDt, options, tries, cycleVars,
                    mode, clockTime, playStartTime, introStart, rafPending,
                    faultLogged, startPlays, ops, systems >>

KeyUp ==
    /\ beam.events < MaxKeyEvents
    /\ \E key \in KeyChoices :
           /\ beam' = [ onKeyUp(beam, key) EXCEPT !.events = @ + 1 ]
           /\ call' = [ name |-> "keyup", key |-> key ]
    /\ UNCHANGED << fleetVars, rocks, elapsed, sinceSpawn, runDt, options, tries, cycleVars,
                    mode, clockTime, playStartTime, introStart, rafPending,
                    faultLogged, startPlays, ops, systems >>

InitPlay ==
    /\ InitShared
    /\ rocks = << >>
    /\ runDt = 0

NextPlay == FirstFrame \/ IntroFrame \/ PlayFrame \/ FaultyFrame

SpecPlay == InitPlay /\ [][NextPlay]_vars

\* the frame loop with key events arriving between the frames
KeyedIntroFrame == IntroFrameUntil(MaxKeyClock)

KeyedPlayFrame == PlayFrameUntil(MaxKeyClock)

NextKeys == FirstFrame \/ KeyedIntroFrame \/ KeyedPlayFrame \/ KeyDown \/ KeyUp

SpecKeys == InitPlay /\ [][NextKeys]_vars

----------------------------------------------------------------------------
(* Claims about the fleet and the rock field *)

Terminal(s) == ~s.active \/ s.crashed

SamePlace(s, t) == s.x = t.x /\ s.z = t.z /\ s.dir = t.dir

\* the rocks whose sphere intersects or touches the sphere of ship s
Touching(s) ==
    { j \in 1..Len(rocks) :
        (s.x - rocks[j].cx) * (s.x - rocks[j].cx)
        + (shipY + ShipBoxCentreY - rocks[j].cy) * (shipY + ShipBoxCentreY - rocks[j].cy)
        + (s.z - rocks[j].cz) * (s.z - rocks[j].cz)
          <= (ShipRadius + rocks[j].radius) * (ShipRadius + rocks[j].radius) }

Lowest(S) == CHOOSE j \in S : \A k \in S : j <= k

Eligible(s) == s.active /\ ~s.crashed /\ s.visible

IsCheck(c) == c.name = "checkShipCollisions"

\* C1: once a ship is terminal (inactive after arrival, or marked crashed by
\* the collision check), no later step changes its position or heading while
\* it is in the collection.
C1_TerminalShipsStay ==
    [][ \A i \in 1..Len(ships) :
          (i <= Len(ships') /\ Terminal(ships[i])) => SamePlace(ships'[i], ships[i]) ]_vars

\* the events checkShipCollisions owes for the ships as they are before the
\* call: one per eligible ship that touches a rock, naming the lowest such
\* rock, and none for any other ship
EventsAsClaimed(before, list) ==
    /\ \A k \in 1..Len(list) : list[k].shipIndex \in 0..(Len(before) - 1)
    /\ \A i \in 1..Len(before) :
         LET evs == { k \in 1..Len(list) : list[k].shipIndex = i - 1 }
         IN  IF Eligible(before[i]) /\ Touching(before[i]) # {}
             THEN /\ Cardinality(evs) = 1
                  /\ \A k \in evs : list[k].rockIndex = Lowest(Touching(before[i])) - 1
             ELSE evs = {}

\* the ships after the call: a ship with an event is marked, crashed if
\* markCrashed and hidden if hideOnCrash; every other ship is as before
MarksAsClaimed(before, after, list, markCrashed, hideOnCrash) ==
    /\ Len(after) = Len(before)
    /\ \A i \in 1..Len(before) :
         IF \E k \in 1..Len(list) : list[k].shipIndex = i - 1
         THEN after[i] = [ before[i] EXCEPT !.crashed = before[i].crashed \/ markCrashed,
                                            !.visible = before[i].visible /\ ~hideOnCrash ]
         ELSE after[i] = before[i]

\* C6, as stated: every call returns the events owed and leaves each ship
\* that has an event crashed and hidden, the others unchanged.
C6_HitIsMarked ==
    [][ IsCheck(call') =>
          /\ EventsAsClaimed(ships, call'.hits)
          /\ MarksAsClaimed(ships, ships', call'.hits, TRUE, TRUE) ]_vars

\* C6, amended: every call returns the events owed; a ship that has an event
\* is marked crashed when markCrashed is on and hidden when hideOnCrash is on
\* (both are on by default); every other ship is unchanged.
C6_EventsAndMarks ==
    [][ IsCheck(call') =>
          /\ EventsAsClaimed(ships, call'.hits)
          /\ MarksAsClaimed(ships, ships', call'.hits,
                            call'.markCrashed, call'.hideOnCrash) ]_vars

\* a default call has reported one event for a ship whose sphere touches
\* both rocks, naming the first, and has left that ship crashed and hidden
C6_Witness ==
    /\ IsCheck(call)
    /\ call.markCrashed /\ call.hideOnCrash
    /\ \E k \in 1..Len(call.hits) :
         LET s == ships[call.hits[k].shipIndex + 1]
         IN  /\ Cardinality(Touching(s)) = 2
             /\ call.hits[k].rockIndex = 0
             /\ s.crashed /\ ~s.visible

\* C7, as stated: a call that follows another call directly returns an empty
\* list and changes no ship.
C7_SecondCallEmpty ==
    [][ (IsCheck(call) /\ IsCheck(call')) =>
          (call'.hits = << >> /\ ships' = ships) ]_vars

\* C7, amended: a call that directly follows a call made with markCrashed or
\* hideOnCrash on (as by default) returns an empty list and changes no ship;
\* and no call returns an event for a ship that is crashed, inactive or hidden.
C7_SecondCallEmptyAfterMarking ==
    /\ [][ (IsCheck(call) /\ (call.markCrashed \/ call.hideOnCrash) /\ IsCheck(call')) =>
             (call'.hits = << >> /\ ships' = ships) ]_vars
    /\ [][ IsCheck(call') =>
             \A k \in 1..Len(call'.hits) :
                 Eligible(ships[call'.hits[k].shipIndex + 1]) ]_vars

\* a second call in a row has returned nothing while a ship marked crashed and
\* hidden still touches a rock
C7_Witness ==
    /\ IsCheck(call)
    /\ call.again
    /\ call.hits = << >>
    /\ \E i \in 1..Len(ships) :
         ships[i].crashed /\ ~ships[i].visible /\ ships[i].active
         /\ Touching(ships[i]) # {}

\* C9: in a fleet driven only by update(dt, time, null) with a constant
\* dt > 0, whose speed is (spawnZ - arriveZ) / period, the first ship is
\* there from the first update on, and is inactive exactly when the dt
\* accumulated is at least the period; it stopped at an elapsed time in
\* [period, period + dt).
C9_ArrivalAtPeriod ==
    /\ (elapsed = 0) = (ships = << >>)
    /\ elapsed > 0 =>
         LET s == ships[1]
             period == cycleDuration
             stopped == (shipSpawnZ - s.z) \div s.speed
         IN  /\ s.speed * period = shipSpawnZ - shipArriveZ
             /\ s.active = (elapsed < period)
             /\ s.active => s.z = shipSpawnZ - s.speed * elapsed
             /\ ~s.active => (period <= stopped /\ stopped < period + runDt)

\* the first ship has stopped in an update that overshot the period
C9_Witness ==
    /\ ships # << >>
    /\ ~ships[1].active
    /\ elapsed > cycleDuration
    /\ elapsed - runDt < cycleDuration

\* C10: the spawn counter equals the number of ships and never exceeds
\* shipCount, and once it has reached shipCount no step adds a ship.
C10_SpawnQuota ==
    /\ [](shipsSpawned = Len(ships) /\ shipsSpawned <= shipCount)
    /\ [][ shipsSpawned >= shipCount => Len(ships') <= Len(ships) ]_vars

\* the quota is reached and a spawnShip call has left the fleet as it was even
\* though the spawn timer has run out
C10_Witness ==
    /\ shipsSpawned = shipCount
    /\ Len(ships) = shipCount
    /\ spawnTimer >= shipSpawnInterval
    /\ call.name = "spawnShip"

----------------------------------------------------------------------------
(* Claims about the cycle manager and the frame loop *)

Count(list, v) == Cardinality({ k \in 1..Len(list) : list[k] = v })

\* C3: over calls of update(t) with non-decreasing t >= 0, onCycleStart has
\* been called exactly once for each cycle index computed so far, index 0
\* included, and for no other index; a call with the same t adds no call.
C3_OncePerIndex ==
    /\ \A idx \in seen : Count(fired, idx) = 1
    /\ \A k \in 1..Len(fired) : fired[k] \in seen

\* the calls have computed index 0 and at least two later indices
C3_Witness ==
    /\ 0 \in seen
    /\ Cardinality(seen) >= 3
    /\ Len(fired) = Cardinality(seen)
    /\ lastT > cycleDuration * lastCycleIndex

\* C2: at the PLAY frame in which a cycle boundary fires, the first ship of
\* the cycle that ends, spawned in the frame that started it, has reached
\* shipArriveZ and is inactive.
C2_ArrivedByBoundary ==
    [][ (mode = "PLAY" /\ lastCycleIndex >= 0 /\ lastCycleIndex' = lastCycleIndex + 1
         /\ ships # << >>)
        => (~ships[1].active /\ ships[1].z <= shipArriveZ) ]_vars

\* C4: after a frame that threw, the next frame is still scheduled.
C4_LoopSurvivesFault == faultLogged => rafPending

\* C5: from one PLAY frame to the next the cycle index grows by at most one.
C5_IndexStepsByOne ==
    [][ (mode = "PLAY" /\ lastCycleIndex >= 0)
        => lastCycleIndex' <= lastCycleIndex + 1 ]_vars

\* C8: every ship in the collection was spawned in the current cycle, and
\* after a PLAY frame in which the cycle index changed the collection holds
\* only ships spawned in that frame.
C8_ResetBeforeSpawn ==
    /\ [](mode = "PLAY" =>
            \A i \in 1..Len(ships) : CycleIndex(Val(ships[i].born)) = lastCycleIndex)
    /\ [][ (mode = "PLAY" /\ lastCycleIndex' # lastCycleIndex)
           => \A i \in 1..Len(ships') : Val(ships'[i].born) = lastT' ]_vars

\* a later cycle has begun with a frame that reset the fleet and spawned the
\* cycle's first ship
C8_Witness ==
    /\ mode = "PLAY"
    /\ Len(fired) >= 2
    /\ lastCycleIndex >= 1
    /\ Len(ships) = 1
    /\ Val(ships[1].born) = lastT
    /\ rafPending

----------------------------------------------------------------------------
(* Claims about the fleet's update: schedule, arrival, steering *)

\* the step is an update call that spawned a ship
UpdateSpawned == call'.name = "update" /\ Len(ships') > Len(ships)

\* C11 as stated: over any sequence of update and reset calls, an update
\* spawns at most one ship, and the dt of the update calls from after one
\* spawn up to and including the next spawn is at least spawnInterval.
C11_SpawnSpacing ==
    [][ /\ call'.name = "update" => Len(ships') <= Len(ships) + 1
        /\ (UpdateSpawned /\ sinceSpawn.any)
              => sinceSpawn.dt + (elapsed' - elapsed) >= shipSpawnInterval ]_vars

\* C11 amended: an update spawns at most one ship, and between two
\* consecutive spawns with no reset() between them the update calls have
\* accumulated at least spawnInterval of dt.  (reset() sets the timer to
\* spawnInterval, so the first update after it spawns at once.)
C11_SpawnSpacingWithoutReset ==
    [][ /\ call'.name = "update" => Len(ships') <= Len(ships) + 1
        /\ (UpdateSpawned /\ sinceSpawn.any /\ ~sinceSpawn.reset)
              => sinceSpawn.dt + (elapsed' - elapsed) >= shipSpawnInterval ]_vars

\* a second ship has just been spawned by the schedule, no reset since the first
C11_Witness ==
    /\ call.name = "update"
    /\ Len(ships) >= 2
    /\ sinceSpawn.any /\ sinceSpawn.dt = 0
    /\ ships[Len(ships)].born = Some(elapsed)
    /\ Val(ships[Len(ships)].born) - Val(ships[Len(ships) - 1].born) >= shipSpawnInterval

\* the ship at index i before the step, or the ship as spawnShip made it when
\* the step's update spawned it
Before(i) == IF i <= Len(ships) THEN ships[i]
             ELSE [ ships'[i] EXCEPT !.z = shipSpawnZ, !.dir = 0, !.dirY = 0,
                                     !.active = TRUE, !.visible = TRUE ]

\* C12: after every fleet update each ship that is still active has
\* z > arriveZ, and update makes a ship inactive or hidden only in an update
\* in which its z after the move is <= arriveZ.
C12_ActiveShipsAreOffshore ==
    [][ call'.name = "update" =>
          \A i \in 1..Len(ships') :
             /\ ships'[i].active => ships'[i].z > shipArriveZ
             /\ (Before(i).active /\ ~ships'[i].active) => ships'[i].z <= shipArriveZ
             /\ (Before(i).visible /\ ~ships'[i].visible) => ships'[i].z <= shipArriveZ
      ]_vars

\* an update has just brought one ship in while a later ship is still under way
C12_Witness ==
    /\ call.name = "update"
    /\ \E i, j \in 1..Len(ships) :
          /\ ~ships[i].active /\ ~ships[i].visible /\ ~ships[i].crashed
          /\ ships[i].z <= shipArriveZ
          /\ ships[j].active /\ ships[j].z > shipArriveZ

----------------------------------------------------------------------------
(* Claims about rock placement *)

\* squared XZ distance between the centres of two rocks
DistXZ2(a, b) == (a.cx - b.cx) * (a.cx - b.cx) + (a.cz - b.cz) * (a.cz - b.cz)

\* C13: for any two rocks i and j with j placed before i, the XZ distance
\* between their centres is at least minSpacing + collider radius of j.
C13_RocksKeepSpacing ==
    \A i \in 1..Len(rocks) : \A j \in 1..(i - 1) :
        DistXZ2(rocks[i], rocks[j])
          >= (minSpacing + rocks[j].radius) * (minSpacing + rocks[j].radius)

\* placement has ended with a full field whose rocks have different radii,
\* the later one nearer to the first than minSpacing + its own radius allows
C13_Witness ==
    /\ ~PlacingGoesOn(Len(rocks), tries)
    /\ Len(rocks) = rockCount
    /\ rocks[1].radius < rocks[2].radius
    /\ DistXZ2(rocks[2], rocks[1])
         < (minSpacing + rocks[2].radius) * (minSpacing + rocks[2].radius)

\* C14: placement samples at most count * 50 candidates (every iteration
\* samples one, so it ends) and leaves at most count rocks; when it has
\* ended, the field holds exactly count rocks unless the attempt budget is
\* used up, and then it holds fewer, with no error.
C14_PlacementIsBounded ==
    /\ [][ tries' = tries + 1 /\ Len(rocks') \in { Len(rocks), Len(rocks) + 1 } ]_vars
    /\ [](/\ tries <= rockCount * TriesPerRock
          /\ Len(rocks) <= rockCount
          /\ Len(rocks) <= tries
          /\ ~(Len(rocks) < rockCount /\ tries < rockCount * TriesPerRock)
               => (Len(rocks) = rockCount \/ tries = rockCount * TriesPerRock))

\* the budget is used up in a region that cannot hold count rocks
C14_Witness ==
    /\ ~ENABLED PlaceTry
    /\ tries = rockCount * TriesPerRock
    /\ Len(rocks) < rockCount
    /\ Len(rocks) >= 1
    /\ \A c \in CrowdedCandidates : ~isFarEnough(rocks, c[1], c[2])

----------------------------------------------------------------------------
(* Claims about the beam's projection *)

\* t = (planeY - O.y) / D.y compared with a whole number n of length units,
\* for D.y = dy / DirUnit # 0: -1, 0 or 1 as t is below, at or above n
CompareT(planeY, oy, dy, n) ==
    Sign(dy) * Sign((planeY - oy) * DirUnit - n * dy)

\* C15: getSpotCenterOnPlane(planeY) returns null if |D.y| < 1e-4, or
\* t = (planeY - O.y) / D.y <= 0, or t > beamLength, and otherwise exactly
\* O + D * t, whose y is planeY; |D.y| = 1e-4 and t = beamLength give a
\* point, t = 0 gives null.
C15_SpotIsOnPlaneWithinBeam ==
    call.name = "getSpotCenterOnPlane" =>
        LET o == call.origin
            d == call.dir
            nil == \/ Abs(d[2]) < EpsBand
                   \/ CompareT(call.planeY, o[2], d[2], 0) <= 0
                   \/ CompareT(call.planeY, o[2], d[2], beamLength) > 0
        IN  /\ nil <=> call.result = Null
            /\ ~nil =>
                  /\ \A k \in 1..3 :
                        /\ call.result[k][2] # 0
                        \* (result[k] - O[k]) * D.y = D[k] * (planeY - O.y)
                        /\ (call.result[k][1] - o[k] * call.result[k][2]) * d[2]
                             = d[k] * (call.planeY - o[2]) * call.result[k][2]
                  /\ call.result[2][1] = call.planeY * call.result[2][2]

\* a point is returned on the edge of the band and at the beam's full length
C15_Witness ==
    /\ call.name = "getSpotCenterOnPlane"
    /\ call.result # Null
    /\ Abs(call.dir[2]) = EpsBand
    /\ CompareT(call.planeY, call.origin[2], call.dir[2], beamLength) = 0

----------------------------------------------------------------------------
(* Claims about the orchestrator *)

\* the step is an animate() call in which intro.update reported completion
IntroCompletes ==
    /\ call'.name = "animate"
    /\ mode = "INTRO"
    /\ introStart' # Null
    /\ clockTime' - Val(introStart') >= IntroDuration

\* C16: the mode goes from INTRO to PLAY once, in the first frame in which
\* the intro camera reports completion, and never returns to INTRO;
\* startPlay runs exactly once, in that frame.
C16_OneTransition ==
    [][ /\ mode = "PLAY" => (mode' = "PLAY" /\ startPlays' = startPlays)
        /\ mode = "INTRO" =>
              /\ startPlays = 0
              /\ IntroCompletes <=> mode' = "PLAY"
              /\ IntroCompletes <=> startPlays' = 1
              /\ startPlays' \in {0, 1}
      ]_vars

\* the loop is in its second cycle of PLAY, startPlay having run once
C16_Witness ==
    /\ mode = "PLAY"
    /\ startPlays = 1
    /\ playStartTime # Null
    /\ lastCycleIndex >= 1

\* the step is an animate() call in PLAY mode that ran to its end
PlayFrameDone == mode = "PLAY" /\ rafPending' /\ clockTime' # clockTime

\* C17: a PLAY frame runs, once each and in this order, the cycle manager's
\* update, the beam's ground projection, the fleet's update with that
\* projection, and the rock field's collision check; the check never runs
\* before the fleet update of its frame.  (A frame that throws runs an
\* initial part of that order.)
C17_OrderOfTheFrame ==
    [][ LET order == << "cycle.update", "beam.getSpotCenterOnPlane",
                        "shipSystem.update", "rockSystem.checkShipCollisions" >>
            dt == Min(clockTime' - clockTime, DtClamp)
            tPlay == clockTime' - Val(playStartTime)
        IN  /\ (mode = "PLAY" /\ clockTime' # clockTime) =>
                  \E n \in 0..Len(order) : ops' = SubSeq(order, 1, n)
            /\ PlayFrameDone =>
                  /\ ops' = order
                  /\ \E projection \in SpotChoices, randomX \in SpawnXs, speed \in Speeds :
                        LET f == IF CycleFires(tPlay) THEN AfterReset(Fleet) ELSE Fleet
                            g == AfterUpdate(f, dt, tPlay, projection, randomX, speed)
                            r == checkShipCollisions(g.ships, rocks, TRUE, TRUE)
                        IN  /\ ships' = r.ships
                            /\ shipsSpawned' = g.shipsSpawned
                            /\ spawnTimer' = g.spawnTimer
                            /\ call'.hits = r.hits
                  /\ \A i \in 1..Len(ships') : ~(Eligible(ships'[i]) /\ Touching(ships'[i]) # {})
      ]_vars

\* a PLAY frame has ended in which a ship, steered by the projection in an
\* earlier frame, was moved onto a rock and reported
C17_Witness ==
    /\ mode = "PLAY"
    /\ rafPending
    /\ ops = << "cycle.update", "beam.getSpotCenterOnPlane",
                "shipSystem.update", "rockSystem.checkShipCollisions" >>
    /\ call.name = "checkShipCollisions"
    /\ call.hits # << >>
    /\ \E i \in 1..Len(ships) : ships[i].crashed /\ ships[i].dir # 0

----------------------------------------------------------------------------
(* Claims about steering *)

\* the desired heading of a ship for a spot centre away from its XZ position
Desired(s, spotCenter) == Normalize(spotCenter[1] - s.x, spotCenter[2] - s.z)

\* C18: in a single fleet update with step dt, the angle between a ship's
\* heading before and after the update is at most turnRate * dt.
C18_TurnRateClamp ==
    [][ call'.name = "update" =>
          \A i \in 1..Len(ships') :
             AngleBetween(Before(i).dir, ships'[i].dir)
               <= shipTurnRate * (elapsed' - elapsed) ]_vars

\* an update has turned a ship that is in range of the spot, and the ship
\* does not face the spot yet
C18_Witness ==
    /\ call.name = "update"
    /\ \E i \in 1..Len(ships), spotCenter \in SpotChoices \ {Null} :
          /\ ships[i].active
          /\ ships[i].dir # 0
          /\ shipIntersectsSpot(<<ships[i].x, ships[i].z>>, ShipRadius, spotCenter, spotRange)
          /\ AngleBetween(ships[i].dir, Desired(ships[i], spotCenter)) >= 2

\* the XZ circle of ship s meets the steer-range circle around spotCenter
InSteerRange(s, spotCenter) ==
    (s.x - spotCenter[1]) * (s.x - spotCenter[1])
    + (s.z - spotCenter[2]) * (s.z - spotCenter[2])
      <= (ShipRadius + spotRange) * (ShipRadius + spotRange)

\* ship s is steered by an update given spotCenter: the spot centre is not
\* null, s is active and in steer range, and the spot is not at its position
Steered(s, spotCenter) ==
    /\ spotCenter # Null
    /\ s.active
    /\ InSteerRange(s, spotCenter)
    /\ << s.x, s.z >> # spotCenter

\* C19: in an update with turnRate * dt > 0, a ship that is steered turns
\* toward its desired heading by min(turnRate * dt, angle): the angle to
\* the desired heading after the update is the angle before less that
\* minimum.
C19_TurnsTowardSpot ==
    [][ (call'.name = "update" /\ shipTurnRate * (elapsed' - elapsed) > 0) =>
          \A i \in 1..Len(ships') :
             Steered(Before(i), call'.spotCenter) =>
                LET desired == Desired(Before(i), call'.spotCenter)
                    angle == AngleBetween(Before(i).dir, desired)
                IN  AngleBetween(ships'[i].dir, desired)
                      = angle - Min(shipTurnRate * (elapsed' - elapsed), angle) ]_vars

\* C20: an update given a null spot centre, or given a spot centre whose
\* steer-range circle the ship's XZ circle does not meet, leaves the ship's
\* heading unchanged; so under a null spot centre a ship heading (0, 0, -1),
\* as every ship does at spawn, keeps that heading and its X.
C20_NoSpotNoTurn ==
    [][ call'.name = "update" =>
          \A i \in 1..Len(ships') :
             /\ (call'.spotCenter = Null \/ ~InSteerRange(Before(i), call'.spotCenter))
                   => ships'[i].dir = Before(i).dir
             /\ (call'.spotCenter = Null /\ Before(i).dir = 0)
                   => (ships'[i].dir = 0 /\ ships'[i].x = Before(i).x)
             /\ i > Len(ships) => ships'[i].x \in SpawnXs ]_vars

\* an update given a spot centre has turned one ship, and has moved a ship
\* that was out of steer range and kept its heading
C20_Witness ==
    /\ call.name = "update"
    /\ call.spotCenter # Null
    /\ \E i, j \in 1..Len(ships) :
          /\ ships[j].active /\ ships[j].dir # 0
          /\ ships[i].active /\ ships[i].dir = 0
          /\ ships[i].z < shipSpawnZ
          /\ ships[i].z > call.spotCenter[2]
          /\ ~InSteerRange([ ships[i] EXCEPT !.z = @ + ships[i].speed ], call.spotCenter)

----------------------------------------------------------------------------
(* Claims about reset, the beam's gate, progress and degenerate options *)

\* C21: reset() leaves the fleet as createShipSystem made it (no ships,
\* spawn counter 0, spawn timer at its initial value), and a second reset()
\* changes nothing.
C21_ResetGivesNewFleet ==
    [][ call'.name = "reset" =>
          /\ ships' = << >>
          /\ shipsSpawned' = 0
          /\ spawnTimer' = shipSpawnInterval
          /\ << ships', shipsSpawned', spawnTimer' >> = << NewFleet.ships,
                NewFleet.shipsSpawned, NewFleet.spawnTimer >>
          /\ call.name = "reset" => UNCHANGED fleetVars ]_vars

\* reset() has just been called on a fleet that had spawned a ship and run
\* its timer
C21_Witness ==
    /\ call.name = "reset"
    /\ sinceSpawn.any /\ sinceSpawn.reset /\ sinceSpawn.dt > 0
    /\ Fleet = NewFleet

\* C22: the beam's enabled flag is true iff the mode is PLAY, and while the
\* mode is INTRO no key event and no beam update changes the beam's yaw or
\* pitch or records a key as pressed.
C22_BeamGatedByMode ==
    /\ [](beam.enabled <=> mode = "PLAY")
    /\ [][ mode = "INTRO" =>
              /\ beam'.yaw = beam.yaw
              /\ beam'.pitch = beam.pitch
              /\ beam'.keys = {} ]_vars

\* an arrow key has gone down during the intro and left no trace
C22_Witness ==
    /\ mode = "INTRO"
    /\ call.name = "keydown"
    /\ call.key \in ArrowKeys
    /\ beam.events >= 1
    /\ beam.keys = {}
    /\ ~beam.enabled

\* C23: for t >= 0, CycleManager.update(t) returns (t mod period) / period,
\* a value in [0, 1), whatever the stored index is and whether or not the
\* callback fired in the call.
C23_ProgressInUnitInterval ==
    call.name = "cycle.update" =>
        LET n == call.result[1]
            d == call.result[2]
        IN  /\ d = cycleDuration
            /\ 0 <= n /\ n < d
            /\ \E k \in 0..MaxT : lastT = k * cycleDuration + n

\* update has returned a progress above 0 in a later cycle, in a call that
\* did not fire the callback
C23_Witness ==
    /\ call.name = "cycle.update"
    /\ ~call.fired
    /\ lastT > cycleDuration
    /\ call.result[1] > 0
    /\ Len(fired) >= 2

\* C24: with shipCount <= 0 the ship list is empty after any sequence of
\* spawnShip(), update() and reset() calls; a rock field created with
\* count <= 0 holds no rocks and its checkShipCollisions returns no events.
C24_ZeroCountsAreNoOps ==
    /\ options.shipCount <= 0 => (ships = << >> /\ shipsSpawned = 0)
    /\ options.count <= 0 =>
          /\ rocks = << >>
          /\ call.name = "checkShipCollisions" => call.hits = << >>

\* spawnShip() has just been called, after updates, on a fleet with no quota
C24_Witness ==
    /\ options.shipCount <= 0
    /\ options.count <= 0
    /\ call.name = "spawnShip"
    /\ elapsed > 0
    /\ ships = << >>

----------------------------------------------------------------------------
(* Claims about the state of a ship *)

\* squared length of a ship's heading, the unit being UnitLen
HeadingLen2(s) ==
    DirX(s.dir) * DirX(s.dir) + s.dirY * s.dirY + DirZ(s.dir) * DirZ(s.dir)

C26_NeverCrashedAndArrived ==
    \A i \in 1..Len(ships) : ~(ships[i].crashed /\ ~ships[i].active)

\* C27: with default collision options a ship's visual is visible iff the
\* ship is active and not crashed, and no step makes a hidden ship of the
\* collection visible again.
C27_VisibleIffSailing ==
    /\ [](\A i \in 1..Len(ships) :
             ships[i].visible <=> (ships[i].active /\ ~ships[i].crashed))
    /\ [][ \A i \in 1..Len(ships) :
             (i <= Len(ships') /\ ~ships[i].visible) => ~ships'[i].visible ]_vars

\* one ship hidden by a crash, one hidden by arrival and one still sailing
C27_Witness ==
    /\ \E i \in 1..Len(ships) :
           ships[i].crashed /\ ships[i].active /\ ~ships[i].visible
    /\ \E i \in 1..Len(ships) :
           ~ships[i].crashed /\ ~ships[i].active /\ ~ships[i].visible
    /\ \E i \in 1..Len(ships) : ships[i].visible

\* C28: with default collision options each ship produces at most one
\* collision event between its spawn and the next fleet reset.
C28_OneEventPerShip ==
    \A i \in 1..Len(shipEvents) : shipEvents[i] <= 1

\* a ship that had its event still touches a rock when checkShipCollisions
\* is called again, and this call has no event for it
C28_Witness ==
    /\ IsCheck(call)
    /\ call.again
    /\ \E i \in 1..Len(ships) :
           /\ shipEvents[i] = 1
           /\ Touching(ships[i]) # {}
           /\ \A k \in 1..Len(call.hits) : call.hits[k].shipIndex # i - 1

----------------------------------------------------------------------------
(* Claims about the state between two frames *)

\* C29: at the end of every PLAY tick no ship that is active, visible and
\* not crashed has its sphere intersecting or touching a rock collider.
C29_NoSailingShipOnARock ==
    mode = "PLAY" =>
        \A i \in 1..Len(ships) : ~(Eligible(ships[i]) /\ Touching(ships[i]) # {})

\* a PLAY tick has ended whose fleet update put a ship on a rock: the ship
\* is reported and marked, and another ship sails on
C29_Witness ==
    /\ mode = "PLAY"
    /\ ops = PlayOrder
    /\ IsCheck(call)
    /\ \E i \in 1..Len(ships) :
           /\ \E k \in 1..Len(call.hits) : call.hits[k].shipIndex = i - 1
           /\ Touching(ships[i]) # {}
           /\ ships[i].crashed /\ ~ships[i].visible
    /\ \E j \in 1..Len(ships) : Eligible(ships[j])

\* the fleet, the rock field, the cycle manager and playStartTime are set
AllSet ==
    /\ systems = { "shipSystem", "rockSystem", "cycle" }
    /\ playStartTime # Null

\* the simulation steps among the operations of a frame
SimulationSteps(frame) ==
    { k \in 1..Len(frame) :
        frame[k] \in { "cycle.update", "shipSystem.update",
                       "rockSystem.checkShipCollisions" } }

\* C30: between two frames the fleet, the rock field, the cycle manager and
\* playStartTime are all set iff the mode is PLAY; a frame runs a simulation
\* step only if startPlay completed in an earlier frame, and the frame of the
\* INTRO -> PLAY transition runs none.
C30_SystemsSetIffPlay ==
    /\ [](AllSet <=> mode = "PLAY")
    /\ [][ /\ (clockTime' # clockTime /\ SimulationSteps(ops') # {}) =>
                (AllSet /\ mode = "PLAY" /\ startPlays = 1)
           /\ (mode = "INTRO" /\ mode' = "PLAY") =>
                /\ SimulationSteps(ops') = {}
                /\ ships' = << >>
                /\ fired' = fired
                /\ seen' = seen ]_vars

\* the frame of the transition has just ended: startPlay has run, no
\* simulation step has
C30_Witness ==
    /\ mode = "PLAY"
    /\ AllSet
    /\ ops = << "intro.update", "startPlay" >>
    /\ clockTime = Val(playStartTime)

====
